---- MODULE Spec2Model ----
(***************************************************************************)
(* Scam-Guard-AI backend: the scoring core of check_domain.               *)
(*                                                                         *)
(* Numbers are fixed point:                                                *)
(*   - scores handed to determine_verdict / generate_explanations are in   *)
(*     thousandths of a point (70.00 is 70000);                            *)
(*   - the rule score is in whole points;                                  *)
(*   - content.scam_score and confidences are in hundredths;               *)
(*   - normalized features are in units of 1/SCALE.                        *)
(* A Python value is a record [t, n]: t is its type ("absent" for a key    *)
(* the mapping does not have, "num", "bool", "none" for None, "str" for a  *)
(* non-numeric string), n its number where it has one.                     *)
(***************************************************************************)
EXTENDS Integers, Sequences, FiniteSets, TLC

VARIABLES pc, domain_valid, signals, features, normalized_features,
          ml_prediction, rule_score, final_risk_score, verdict, confidence,
          detailed_reasons, response, status, weights, model_loaded,
          model_file, model_log, probability

vars == <<pc, domain_valid, signals, features, normalized_features,
          ml_prediction, rule_score, final_risk_score, verdict, confidence,
          detailed_reasons, response, status, weights, model_loaded,
          model_file, model_log, probability>>

\* the MLModel object of main.py (self.weights, self.model_loaded), and what
\* load_model and save_model touch outside it: the file at their path and the
\* line they log
ml_model == <<weights, model_loaded>>
model_io == <<model_file, model_log>>

----
(* Python values *)

Absent == [t |-> "absent", n |-> 0]
None == [t |-> "none", n |-> 0]
Str == [t |-> "str", n |-> 0]
Num(k) == [t |-> "num", n |-> k]
Bool(b) == [t |-> "bool", n |-> IF b THEN 1 ELSE 0]

\* dict.get(key, default): the default stands in for an absent key only
Get(v, default) == IF v.t = "absent" THEN default ELSE v

\* a value that compares and computes as a number (bool is an int in Python)
IsNumber(v) == v.t \in {"num", "bool"}

\* Python truthiness of a value
Truthy(v) ==
    CASE v.t = "num" -> v.n # 0
      [] v.t = "bool" -> v.n = 1
      [] v.t = "str" -> TRUE
      [] OTHER -> FALSE

\* a sub-record of the bundle is a mapping, is missing from the bundle, or is
\* not a mapping at all; signals.get(name, {}) of a missing one is the empty dict
IsMapping(sub) == sub.kind \in {"map", "missing"}

----
(* The SignalBundle: six sub-records, each a mapping of Python values *)

\* whois.domain is a string, known by its length and its count of digits
Domain(length, digit_count) == [t |-> "str", len |-> length, digits |-> digit_count]
NoDomain == [t |-> "absent", len |-> 0, digits |-> 0]
NoneDomain == [t |-> "none", len |-> 0, digits |-> 0]

\* a list of strings, an absent key, or None where a list is expected
List(seq) == [t |-> "list", items |-> seq]
NoList == [t |-> "absent", items |-> <<>>]
NoneList == [t |-> "none", items |-> <<>>]

Text(s) == [t |-> "str", s |-> s]
NoText == [t |-> "absent", s |-> ""]

Whois(age, privacy, domain) ==
    [kind |-> "map", domain_age_days |-> age, privacy_protected |-> privacy,
     domain |-> domain]
Ssl(has_ssl, ssl_valid, days_until_expiry) ==
    [kind |-> "map", has_ssl |-> has_ssl, ssl_valid |-> ssl_valid,
     days_until_expiry |-> days_until_expiry]
Dns(resolved) == [kind |-> "map", resolved |-> resolved]
Blacklist(hits, blacklists, scam_pattern, risk_indicators) ==
    [kind |-> "map", blacklist_hits |-> hits, blacklists |-> blacklists,
     scam_pattern_detected |-> scam_pattern, risk_indicators |-> risk_indicators]
Hosting(reputation, provider) ==
    [kind |-> "map", reputation_score |-> reputation, hosting_provider |-> provider]
Content(scam_score, keyword_count, high_risk, medium_risk, has_forms, available) ==
    [kind |-> "map", scam_score |-> scam_score, risk_keyword_count |-> keyword_count,
     high_risk_keywords |-> high_risk, medium_risk_keywords |-> medium_risk,
     has_forms |-> has_forms, content_available |-> available]

\* the empty mapping {} of each shape
EmptyWhois == Whois(Absent, Absent, NoDomain)
EmptySsl == Ssl(Absent, Absent, Absent)
EmptyDns == Dns(Absent)
EmptyBlacklist == Blacklist(Absent, NoList, Absent, NoList)
EmptyHosting == Hosting(Absent, NoText)
EmptyContent == Content(Absent, Absent, NoList, NoList, Absent, Absent)

\* a sub-record the bundle does not have, and one that is not a mapping
Missing(empty) == [empty EXCEPT !.kind = "missing"]
NotMapping(empty) == [empty EXCEPT !.kind = "notmap"]

Bundle(w, s, d, b, h, c) ==
    [whois |-> w, ssl |-> s, dns |-> d, blacklist |-> b, hosting |-> h, content |-> c]

\* signals = {} at the start of check_domain
EmptyBundle ==
    Bundle(Missing(EmptyWhois), Missing(EmptySsl), Missing(EmptyDns),
           Missing(EmptyBlacklist), Missing(EmptyHosting), Missing(EmptyContent))

----
(* main.py *)

FeatureNames ==
    <<"domain_age_days", "has_https", "ssl_valid", "blacklist_count",
      "hosting_reputation_score", "content_scam_score", "dns_resolved",
      "domain_length", "has_whois_privacy", "content_risk_keywords">>

Flag(v) == IF Truthy(v) THEN Num(1) ELSE Num(0)

NoFeatures == [f \in {FeatureNames[i] : i \in 1..Len(FeatureNames)} |-> Absent]

\* extract_features: no try/except; .get on a sub-record that is not a mapping
\* and len() of a domain that is not a string raise out of the function
extract_features(sig) ==
    IF \/ ~IsMapping(sig.whois) \/ ~IsMapping(sig.ssl) \/ ~IsMapping(sig.blacklist)
       \/ ~IsMapping(sig.hosting) \/ ~IsMapping(sig.content) \/ ~IsMapping(sig.dns)
       \/ sig.whois.domain.t = "none"
    THEN [raised |-> TRUE, v |-> NoFeatures]
    ELSE [raised |-> FALSE,
          v |-> [domain_age_days |-> Get(sig.whois.domain_age_days, Num(0)),
                 has_https |-> Flag(Get(sig.ssl.has_ssl, Bool(FALSE))),
                 ssl_valid |-> Flag(Get(sig.ssl.ssl_valid, Bool(FALSE))),
                 blacklist_count |-> Get(sig.blacklist.blacklist_hits, Num(0)),
                 hosting_reputation_score |-> Get(sig.hosting.reputation_score, Num(50)),
                 content_scam_score |-> Get(sig.content.scam_score, Num(50)),
                 dns_resolved |-> Flag(Get(sig.dns.resolved, Bool(FALSE))),
                 domain_length |-> Num(sig.whois.domain.len),
                 has_whois_privacy |-> Flag(Get(sig.whois.privacy_protected, Bool(FALSE))),
                 content_risk_keywords |-> Get(sig.content.risk_keyword_count, Num(0))]]

\* the verdict strings and the confidences (hundredths) of determine_verdict
NoVerdict == [raised |-> TRUE, verdict |-> "", confidence |-> 0]
Judged(v, c) == [raised |-> FALSE, verdict |-> v, confidence |-> c]

\* determine_verdict with the score buckets tried before the blacklist override
determine_verdict_score_first(risk_score, sig) ==
    LET blacklist_hits == Get(sig.blacklist.blacklist_hits, Num(0))
    IN  IF ~IsMapping(sig.blacklist) \/ ~IsNumber(blacklist_hits) THEN NoVerdict
        ELSE IF risk_score >= 70000 THEN Judged("LIKELY SCAM", 85)
        ELSE IF risk_score >= 40000 THEN Judged("SUSPICIOUS", 75)
        ELSE IF blacklist_hits.n > 0 THEN Judged("LIKELY SCAM", 95)
        ELSE Judged("SAFE", 80)

\* determine_verdict with > for >= at the thresholds
determine_verdict_strict(risk_score, sig) ==
    LET blacklist_hits == Get(sig.blacklist.blacklist_hits, Num(0))
    IN  IF ~IsMapping(sig.blacklist) \/ ~IsNumber(blacklist_hits) THEN NoVerdict
        ELSE IF blacklist_hits.n > 0 THEN Judged("LIKELY SCAM", 95)
        ELSE IF risk_score > 70000 THEN Judged("LIKELY SCAM", 85)
        ELSE IF risk_score > 40000 THEN Judged("SUSPICIOUS", 75)
        ELSE Judged("SAFE", 80)

\* determine_verdict with another wording for the override's verdict
determine_verdict_scam(risk_score, sig) ==
    LET blacklist_hits == Get(sig.blacklist.blacklist_hits, Num(0))
    IN  IF ~IsMapping(sig.blacklist) \/ ~IsNumber(blacklist_hits) THEN NoVerdict
        ELSE IF blacklist_hits.n > 0 THEN Judged("SCAM", 95)
        ELSE IF risk_score >= 70000 THEN Judged("LIKELY SCAM", 85)
        ELSE IF risk_score >= 40000 THEN Judged("SUSPICIOUS", 75)
        ELSE Judged("SAFE", 80)

\* determine_verdict(risk_score, signals); risk_score in thousandths.
\* blacklist_hits > 0 raises TypeError on None or a string
determine_verdict(risk_score, sig) ==
    LET blacklist_hits == Get(sig.blacklist.blacklist_hits, Num(0))
    IN  IF ~IsMapping(sig.blacklist) \/ ~IsNumber(blacklist_hits) THEN NoVerdict
        ELSE IF blacklist_hits.n > 0 THEN Judged("LIKELY SCAM", 95)
        ELSE IF risk_score >= 70000 THEN Judged("LIKELY SCAM", 85)
        ELSE IF risk_score >= 40000 THEN Judged("SUSPICIOUS", 75)
        ELSE Judged("SAFE", 80)

----
(* ai/ml_model.py *)

\* 1/SCALE is the unit of a normalized feature: every divisor of
\* _normalize_features (365*3, 5, 100, 50, 10) divides it
SCALE == (365 * 3) * 20

\* self.weights, in hundredths
DefaultWeights ==
    [domain_age_days |-> -5, has_https |-> -15, ssl_valid |-> -10,
     blacklist_count |-> 30, hosting_reputation_score |-> -2,
     content_scam_score |-> 40, dns_resolved |-> -10, domain_length |-> 1,
     has_whois_privacy |-> 5, content_risk_keywords |-> 5]

Min(a, b) == IF a < b THEN a ELSE b
Max(a, b) == IF a > b THEN a ELSE b
Abs(a) == IF a < 0 THEN -a ELSE a

\* x / d of a number, a TypeError of anything else
Scaled(v, per_unit) == IF IsNumber(v) THEN Num(v.n * per_unit) ELSE v

\* min(x / d, 1.0)
Capped(v, per_unit) == IF IsNumber(v) THEN Num(Min(v.n * per_unit, SCALE)) ELSE v

\* _normalize_features: the divisions and min() raise TypeError on a value that
\* is not a number; the binary features and content_scam_score pass through
\* as they are, whatever they are
_normalize_features(f) ==
    LET domain_age == Get(f.domain_age_days, Num(0))
        blacklist_count == Get(f.blacklist_count, Num(0))
        hosting_rep == Get(f.hosting_reputation_score, Num(50))
        domain_length == Get(f.domain_length, Num(0))
        keyword_count == Get(f.content_risk_keywords, Num(0))
    IN  IF \E v \in {domain_age, blacklist_count, hosting_rep, domain_length,
                     keyword_count} : ~IsNumber(v)
        THEN [raised |-> TRUE, v |-> NoFeatures]
        ELSE [raised |-> FALSE,
              v |-> [domain_age_days |-> Capped(domain_age, SCALE \div (365 * 3)),
                     has_https |-> Scaled(Get(f.has_https, Num(0)), SCALE),
                     ssl_valid |-> Scaled(Get(f.ssl_valid, Num(0)), SCALE),
                     dns_resolved |-> Scaled(Get(f.dns_resolved, Num(0)), SCALE),
                     has_whois_privacy |-> Scaled(Get(f.has_whois_privacy, Num(0)), SCALE),
                     blacklist_count |-> Capped(blacklist_count, SCALE \div 5),
                     hosting_reputation_score |-> Scaled(hosting_rep, SCALE \div 100),
                     content_scam_score |->
                         Scaled(Get(f.content_scam_score, Num(50)), SCALE \div 100),
                     domain_length |-> Capped(domain_length, SCALE \div 50),
                     content_risk_keywords |-> Capped(keyword_count, SCALE \div 10)]]

RECURSIVE WeightedSum(_, _, _)
WeightedSum(nf, w, i) ==
    IF i > Len(FeatureNames) THEN 0
    ELSE nf[FeatureNames[i]].n * w[FeatureNames[i]] + WeightedSum(nf, w, i + 1)

\* _calculate_score: the sum of value * weight, in units of 1/(100*SCALE);
\* value * weight raises TypeError on None or a string
_calculate_score(nf, w) ==
    IF \E i \in 1..Len(FeatureNames) : ~IsNumber(nf[FeatureNames[i]])
    THEN [raised |-> TRUE, v |-> 0]
    ELSE [raised |-> FALSE, v |-> WeightedSum(nf, w, 1)]

\* 1/(1+exp(-x)) in ten-thousandths at x = -8, -7.75, ..., 8
SigmoidTable ==
    <<
      3, 4, 6, 7, 9, 12, 15, 19, 25, 32, 41,
      52, 67, 86, 110, 141, 180, 230, 293, 373, 474, 601,
      759, 953, 1192, 1480, 1824, 2227, 2689, 3208, 3775, 4378, 5000,
      5622, 6225, 6792, 7311, 7773, 8176, 8520, 8808, 9047, 9241, 9399,
      9526, 9627, 9707, 9770, 9820, 9859, 9890, 9914, 9933, 9948, 9959,
      9968, 9975, 9981, 9985, 9988, 9991, 9993, 9994, 9996, 9997 >>

\* one step of the table (0.25) in the unit of 5 * score
SigmoidStep == (100 * SCALE) \div 4

\* _sigmoid: 1 / (1 + exp(-5x)), in ten-thousandths; the table interpolated
\* linearly, and its end values beyond it (exp overflows to inf without raising)
_sigmoid(x) ==
    LET scaled == x * 5
        lo == -8 * 4 * SigmoidStep
        k == (scaled - lo) \div SigmoidStep
        r == (scaled - lo) % SigmoidStep
    IN  IF scaled <= lo THEN SigmoidTable[1]
        ELSE IF k + 1 >= Len(SigmoidTable) THEN SigmoidTable[Len(SigmoidTable)]
        ELSE SigmoidTable[k + 1]
             + ((SigmoidTable[k + 2] - SigmoidTable[k + 1]) * r) \div SigmoidStep

\* _calculate_confidence without the final min(base_confidence, 0.95)
_calculate_confidence_uncapped(nf) ==
    LET features_with_data ==
            (IF nf.dns_resolved.n = SCALE THEN 1 ELSE 0)
          + (IF nf.domain_age_days.n > 0 THEN 1 ELSE 0)
          + (IF nf.has_https.n \in {0, SCALE} THEN 1 ELSE 0)
          + (IF nf.content_scam_score.n # SCALE \div 2 THEN 1 ELSE 0)
        base_confidence == (features_with_data * 100) \div 4
        with_blacklist ==
            IF nf.blacklist_count.n > 0 THEN Max(base_confidence, 90)
            ELSE base_confidence
        content_score == nf.content_scam_score.n
    IN  IF content_score * 10 > 7 * SCALE \/ content_score * 10 < 3 * SCALE
        THEN Max(with_blacklist, 80)
        ELSE with_blacklist

\* _calculate_confidence without the floor of 0.9 for a blacklist hit
_calculate_confidence_no_blacklist_floor(nf) ==
    LET features_with_data ==
            (IF nf.dns_resolved.n = SCALE THEN 1 ELSE 0)
          + (IF nf.domain_age_days.n > 0 THEN 1 ELSE 0)
          + (IF nf.has_https.n \in {0, SCALE} THEN 1 ELSE 0)
          + (IF nf.content_scam_score.n # SCALE \div 2 THEN 1 ELSE 0)
        base_confidence == (features_with_data * 100) \div 4
        content_score == nf.content_scam_score.n
        with_content ==
            IF content_score * 10 > 7 * SCALE \/ content_score * 10 < 3 * SCALE
            THEN Max(base_confidence, 80)
            ELSE base_confidence
    IN  Min(with_content, 95)

\* _calculate_confidence, in hundredths
_calculate_confidence(nf) ==
    LET features_with_data ==
            (IF nf.dns_resolved.n = SCALE THEN 1 ELSE 0)
          + (IF nf.domain_age_days.n > 0 THEN 1 ELSE 0)
          + (IF nf.has_https.n \in {0, SCALE} THEN 1 ELSE 0)
          + (IF nf.content_scam_score.n # SCALE \div 2 THEN 1 ELSE 0)
        base_confidence == (features_with_data * 100) \div 4
        with_blacklist ==
            IF nf.blacklist_count.n > 0 THEN Max(base_confidence, 90)
            ELSE base_confidence
        content_score == nf.content_scam_score.n
        with_content ==
            IF content_score * 10 > 7 * SCALE \/ content_score * 10 < 3 * SCALE
            THEN Max(with_blacklist, 80)
            ELSE with_blacklist
    IN  Min(with_content, 95)

\* round(x, 3) of x in units of 1/(100*SCALE), in thousandths (half to even)
Round3(x) ==
    LET unit == (100 * SCALE) \div 1000
        q == x \div unit
        r == x % unit
    IN  IF 2 * r > unit \/ (2 * r = unit /\ q % 2 = 1) THEN q + 1 ELSE q

\* sorted(..., reverse=True) is stable: an item goes after the items that are
\* not smaller than it
RECURSIVE InsertDescending(_, _)
InsertDescending(sorted, item) ==
    IF sorted = <<>> THEN <<item>>
    ELSE IF Head(sorted).contribution >= item.contribution
         THEN <<Head(sorted)>> \o InsertDescending(Tail(sorted), item)
         ELSE <<item>> \o sorted

RECURSIVE SortDescending(_, _)
SortDescending(items, i) ==
    IF i = 0 THEN <<>>
    ELSE InsertDescending(SortDescending(items, i - 1), items[i])

\* _calculate_feature_importance: |value * weight| rounded to 3 decimals, in the
\* order of the weight table, then sorted by importance
_calculate_feature_importance(nf, w) ==
    LET importance ==
            [i \in 1..Len(FeatureNames) |->
                [name |-> FeatureNames[i],
                 contribution |-> Round3(Abs(nf[FeatureNames[i]].n * w[FeatureNames[i]]))]]
    IN  SortDescending(importance, Len(importance))

\* an except branch of predict that answers a zero score
PredictFallbackZero ==
    [risk_score |-> 0, probability |-> 0, confidence |-> 0,
     feature_importance |-> <<>>, model_version |-> "", error |-> "TypeError"]

\* the except branch of predict
PredictFallback ==
    [risk_score |-> 5000, probability |-> 5000, confidence |-> 50,
     feature_importance |-> <<>>, model_version |-> "", error |-> "TypeError"]

\* predict(features) with self.weights = w: risk_score in hundredths of a point,
\* probability in ten-thousandths, confidence in hundredths
predict(f, w) ==
    LET normalized == _normalize_features(f)
        score == _calculate_score(normalized.v, w)
        prob == _sigmoid(score.v)
    IN  IF normalized.raised \/ score.raised THEN PredictFallback
        ELSE [risk_score |-> prob,
              probability |-> prob,
              confidence |-> _calculate_confidence(normalized.v),
              feature_importance |-> _calculate_feature_importance(normalized.v, w),
              model_version |-> "1.0-simulated", error |-> ""]

\* a weight table other than the one __init__ builds, as save_model of a
\* retrained model would have pickled it (hundredths)
TrainedWeights ==
    [domain_age_days |-> -10, has_https |-> -5, ssl_valid |-> -5,
     blacklist_count |-> 45, hosting_reputation_score |-> -4,
     content_scam_score |-> 25, dns_resolved |-> -20, domain_length |-> 2,
     has_whois_privacy |-> 0, content_risk_keywords |-> 10]

NoWeights == [f \in {FeatureNames[i] : i \in 1..Len(FeatureNames)} |-> 0]

\* what is at the path handed to load_model and save_model: no file, a file
\* that open() or pickle.load() raises on, or a pickled weight table
FileMissing == [kind |-> "missing", table |-> NoWeights]
FileCorrupt == [kind |-> "corrupt", table |-> NoWeights]
Pickled(w) == [kind |-> "pickle", table |-> w]

\* MLModel.__init__
FreshModel ==
    /\ weights = DefaultWeights
    /\ model_loaded = FALSE
    /\ model_log = ""

----
(* ai/risk_engine.py *)

max_score == 100

\* self.risk_rules
risk_rules ==
    [domain_age |-> << <<0, 7, 25>>, <<8, 30, 20>>, <<31, 90, 10>>, <<91, 180, 5>> >>,
     ssl |-> [no_ssl |-> 15, invalid_ssl |-> 10, expiring_soon |-> 5],
     blacklist |-> [per_hit |-> 30],
     hosting |-> [bulletproof |-> 20, low_reputation |-> 10],
     content |-> [high_risk_keywords |-> 15, medium_risk_keywords |-> 5,
                  phishing_forms |-> 10],
     dns |-> [no_resolution |-> 20],
     patterns |-> [suspicious_tld |-> 10, long_domain |-> 5, many_numbers |-> 5,
                   homograph |-> 15]]

Raised == [raised |-> TRUE, v |-> 0]
Points(k) == [raised |-> FALSE, v |-> k]

\* the risk indicator strings of the blacklist collaborator, and one that
\* mentions both a TLD and a homograph
ScamNameIndicator == "Domain name contains scam-related keywords"
TLDIndicator == "Domain uses commonly abused TLD"
HomographIndicator == "Domain contains non-ASCII characters (possible homograph attack)"
BothIndicator == "Abused TLD with non-ASCII characters (possible homograph attack)"

\* 'TLD' in indicator, 'homograph' in indicator
MentionsTLD(indicator) == indicator \in {TLDIndicator, BothIndicator}
MentionsHomograph(indicator) == indicator \in {HomographIndicator, BothIndicator}

\* the bracket search with max_days excluded from its bracket
RECURSIVE AgeBracket_exclusive(_, _)
AgeBracket_exclusive(days, i) ==
    IF i > Len(risk_rules.domain_age) THEN 0
    ELSE IF risk_rules.domain_age[i][1] <= days /\ days < risk_rules.domain_age[i][2]
         THEN risk_rules.domain_age[i][3]
         ELSE AgeBracket_exclusive(days, i + 1)

RECURSIVE AgeBracket(_, _)
AgeBracket(days, i) ==
    IF i > Len(risk_rules.domain_age) THEN 0
    ELSE IF risk_rules.domain_age[i][1] <= days /\ days <= risk_rules.domain_age[i][2]
         THEN risk_rules.domain_age[i][3]
         ELSE AgeBracket(days, i + 1)

\* _calculate_age_score: min_days <= domain_age_days <= max_days raises
\* TypeError on None or a string
_calculate_age_score(domain_age_days) ==
    IF ~IsNumber(domain_age_days) THEN Raised
    ELSE Points(AgeBracket(domain_age_days.n, 1))

\* _calculate_ssl_score
_calculate_ssl_score(ssl) ==
    LET days_until_expiry == Get(ssl.days_until_expiry, None)
    IN  IF ~Truthy(Get(ssl.has_ssl, Bool(FALSE))) THEN Points(risk_rules.ssl.no_ssl)
        ELSE IF ~Truthy(Get(ssl.ssl_valid, Bool(FALSE)))
             THEN Points(risk_rules.ssl.invalid_ssl)
        ELSE IF ~Truthy(days_until_expiry) THEN Points(0)
        ELSE IF ~IsNumber(days_until_expiry) THEN Raised
        ELSE IF days_until_expiry.n < 30 THEN Points(risk_rules.ssl.expiring_soon)
        ELSE Points(0)

\* _calculate_blacklist_score without its cap
_calculate_blacklist_score_uncapped(blacklist) ==
    LET hits == Get(blacklist.blacklist_hits, Num(0))
    IN  IF ~IsNumber(hits) THEN Raised
        ELSE Points(hits.n * risk_rules.blacklist.per_hit)

\* _calculate_blacklist_score
_calculate_blacklist_score(blacklist) ==
    LET hits == Get(blacklist.blacklist_hits, Num(0))
    IN  IF ~IsNumber(hits) THEN Raised
        ELSE Points(Min(hits.n * risk_rules.blacklist.per_hit, 50))

\* _calculate_hosting_score with the second test not dependent on the first
_calculate_hosting_score_both(hosting) ==
    LET rep_score == Get(hosting.reputation_score, Num(50))
    IN  IF ~IsNumber(rep_score) THEN Raised
        ELSE Points((IF rep_score.n < 30 THEN risk_rules.hosting.bulletproof ELSE 0)
                    + (IF rep_score.n < 50 THEN risk_rules.hosting.low_reputation ELSE 0))

\* _calculate_hosting_score
_calculate_hosting_score(hosting) ==
    LET rep_score == Get(hosting.reputation_score, Num(50))
    IN  IF ~IsNumber(rep_score) THEN Raised
        ELSE IF rep_score.n < 30 THEN Points(risk_rules.hosting.bulletproof)
        ELSE IF rep_score.n < 50 THEN Points(risk_rules.hosting.low_reputation)
        ELSE Points(0)

\* _calculate_content_score giving the form bonus for any form
_calculate_content_score_any_form(content) ==
    LET high_risk == Len(content.high_risk_keywords.items)
        medium_risk == Len(content.medium_risk_keywords.items)
    IN  IF content.high_risk_keywords.t = "none" \/ content.medium_risk_keywords.t = "none"
        THEN Raised
        ELSE Points(
              (IF high_risk > 0 THEN risk_rules.content.high_risk_keywords ELSE 0)
            + (IF medium_risk > 2 THEN risk_rules.content.medium_risk_keywords ELSE 0)
            + (IF Truthy(Get(content.has_forms, Bool(FALSE)))
               THEN risk_rules.content.phishing_forms ELSE 0))

\* _calculate_content_score: len() raises TypeError on None
_calculate_content_score(content) ==
    LET high_risk == Len(content.high_risk_keywords.items)
        medium_risk == Len(content.medium_risk_keywords.items)
    IN  IF content.high_risk_keywords.t = "none" \/ content.medium_risk_keywords.t = "none"
        THEN Raised
        ELSE Points(
              (IF high_risk > 0 THEN risk_rules.content.high_risk_keywords ELSE 0)
            + (IF medium_risk > 2 THEN risk_rules.content.medium_risk_keywords ELSE 0)
            + (IF Truthy(Get(content.has_forms, Bool(FALSE)))
                  /\ (high_risk > 0 \/ medium_risk > 0)
               THEN risk_rules.content.phishing_forms ELSE 0))

\* _calculate_dns_score charging an answered lookup like an unanswered one
_calculate_dns_score_flat(dns) == Points(risk_rules.dns.no_resolution)

\* _calculate_dns_score
_calculate_dns_score(dns) ==
    IF ~Truthy(Get(dns.resolved, Bool(FALSE))) THEN Points(risk_rules.dns.no_resolution)
    ELSE Points(0)

RECURSIVE IndicatorPoints(_, _)
IndicatorPoints(indicators, i) ==
    IF i > Len(indicators) THEN 0
    ELSE (IF MentionsTLD(indicators[i]) THEN risk_rules.patterns.suspicious_tld
          ELSE IF MentionsHomograph(indicators[i]) THEN risk_rules.patterns.homograph
          ELSE 0)
         + IndicatorPoints(indicators, i + 1)

\* _calculate_pattern_score: iterating None and len(None) raise TypeError
_calculate_pattern_score(sig) ==
    IF \/ ~IsMapping(sig.blacklist) \/ ~IsMapping(sig.whois)
       \/ sig.blacklist.risk_indicators.t = "none" \/ sig.whois.domain.t = "none"
    THEN Raised
    ELSE Points(
          IndicatorPoints(sig.blacklist.risk_indicators.items, 1)
        + (IF sig.whois.domain.len > 30 THEN risk_rules.patterns.long_domain ELSE 0)
        + (IF sig.whois.domain.digits > 5 THEN risk_rules.patterns.many_numbers ELSE 0))

\* the seven subscores in the order calculate_risk_score adds them
Subscores(sig) ==
    << _calculate_age_score(Get(sig.whois.domain_age_days, Num(0))),
       _calculate_ssl_score(sig.ssl),
       _calculate_blacklist_score(sig.blacklist),
       _calculate_hosting_score(sig.hosting),
       _calculate_content_score(sig.content),
       _calculate_dns_score(sig.dns),
       _calculate_pattern_score(sig) >>

RECURSIVE SumPoints(_, _)
SumPoints(scores, i) == IF i = 0 THEN 0 ELSE scores[i].v + SumPoints(scores, i - 1)

\* the try block of calculate_risk_score raises: a sub-record that is not a
\* mapping (AttributeError on .get) or a raising subscore
RuleScoreRaises(sig) ==
    \/ \E name \in {"whois", "ssl", "blacklist", "hosting", "content", "dns"} :
          ~IsMapping(sig[name])
    \/ \E i \in 1..Len(Subscores(sig)) : Subscores(sig)[i].raised

\* calculate_risk_score without the cap at self.max_score
calculate_risk_score_uncapped(sig) ==
    IF RuleScoreRaises(sig) THEN 50
    ELSE SumPoints(Subscores(sig), Len(Subscores(sig)))

\* calculate_risk_score that never adds the pattern subscore
calculate_risk_score_without_patterns(sig) ==
    IF RuleScoreRaises(sig) THEN 50
    ELSE Min(SumPoints(Subscores(sig), Len(Subscores(sig)) - 1), max_score)

\* calculate_risk_score: min(total_score, self.max_score), or 50.0 from the
\* except branch
calculate_risk_score(sig) ==
    IF RuleScoreRaises(sig) THEN 50
    ELSE Min(SumPoints(Subscores(sig), Len(Subscores(sig))), max_score)

----
(* generate_explanations.  A line of the trail is a record: cat is the step of
   generate_explanations that appended it, text its wording (without the
   leading emoji), n and args the values its f-string formats. *)

Line(cat, text) == [cat |-> cat, text |-> text, n |-> 0, args |-> <<>>]
LineWith(cat, text, n, args) == [cat |-> cat, text |-> text, n |-> n, args |-> args]

ScamBanner == Line("banner", "VERDICT: This domain shows multiple indicators of being a SCAM")
SuspiciousBanner == Line("banner", "VERDICT: This domain is SUSPICIOUS - exercise caution")
SafeBanner ==
    Line("banner", "VERDICT: This domain appears relatively SAFE based on available data")
BlankLine == Line("blank", "")
Disclaimer ==
    Line("disclaimer",
         "Note: This analysis is based on automated checks. Always exercise caution online.")
ErrorLine == Line("error", "Error generating detailed explanations")

AgeCritical == Line("age", "CRITICAL: Domain is extremely new (less than 1 week old)")
AgeHigh == Line("age", "HIGH RISK: Domain is very new (less than 1 month old)")
AgeMedium == Line("age", "MEDIUM: Domain is relatively new (less than 3 months old)")
AgePositive == Line("age", "POSITIVE: Domain is well-established (over 1 year old)")

Appended(lines) == [raised |-> FALSE, lines |-> lines]
Failed(lines) == [raised |-> TRUE, lines |-> lines]

\* list[:k]
Prefix(seq, k) == SubSeq(seq, 1, Min(k, Len(seq)))

ExplainAge(sig) ==
    LET domain_age_days == Get(sig.whois.domain_age_days, Num(0))
    IN  IF ~IsMapping(sig.whois) \/ ~IsNumber(domain_age_days) THEN Failed(<<>>)
        ELSE IF domain_age_days.n < 7 THEN Appended(<<AgeCritical>>)
        ELSE IF domain_age_days.n < 30 THEN Appended(<<AgeHigh>>)
        ELSE IF domain_age_days.n < 90 THEN Appended(<<AgeMedium>>)
        ELSE IF domain_age_days.n > 365 THEN Appended(<<AgePositive>>)
        ELSE Appended(<<>>)

ExplainSsl(sig) ==
    LET ssl == sig.ssl
        days_until_expiry == Get(ssl.days_until_expiry, None)
    IN  IF ~IsMapping(ssl) THEN Failed(<<>>)
        ELSE IF ~Truthy(Get(ssl.has_ssl, Bool(FALSE)))
             THEN Appended(<<Line("ssl", "CRITICAL: No HTTPS/SSL certificate detected")>>)
        ELSE IF ~Truthy(Get(ssl.ssl_valid, Bool(FALSE)))
             THEN Appended(<<Line("ssl", "HIGH RISK: SSL certificate is invalid or expired")>>)
        ELSE IF ~Truthy(days_until_expiry)
             THEN Appended(<<Line("ssl", "POSITIVE: Valid SSL certificate detected")>>)
        ELSE IF ~IsNumber(days_until_expiry) THEN Failed(<<>>)
        ELSE IF days_until_expiry.n < 30
             THEN Appended(<<Line("ssl", "WARNING: SSL certificate expiring soon")>>)
        ELSE Appended(<<Line("ssl", "POSITIVE: Valid SSL certificate detected")>>)

ExplainBlacklist(sig) ==
    LET blacklist == sig.blacklist
        blacklist_hits == Get(blacklist.blacklist_hits, Num(0))
        found == LineWith("blacklist", "CRITICAL: Found on {blacklist_hits} security blacklist(s)",
                          blacklist_hits.n, <<>>)
        names == LineWith("blacklist", "   Blacklists: {', '.join(bl_names[:3])}", 0,
                          Prefix(blacklist.blacklists.items, 3))
    IN  IF ~IsMapping(blacklist) \/ ~IsNumber(blacklist_hits) THEN Failed(<<>>)
        ELSE IF blacklist_hits.n > 0
             THEN IF blacklist.blacklists.items # <<>> THEN Appended(<<found, names>>)
                  ELSE Appended(<<found>>)
        ELSE Appended(<<>>)

ExplainScamPattern(sig) ==
    IF Truthy(Get(sig.blacklist.scam_pattern_detected, Bool(FALSE)))
    THEN Appended(<<Line("scam_pattern",
                         "HIGH RISK: Domain name contains scam-related keywords")>>)
    ELSE Appended(<<>>)

ExplainIndicators(sig) ==
    LET risk_indicators == sig.blacklist.risk_indicators
    IN  IF risk_indicators.t = "none" THEN Failed(<<>>)
        ELSE Appended([i \in 1..Len(risk_indicators.items) |->
                          LineWith("indicator", "WARNING: {indicator}", 0,
                                   <<risk_indicators.items[i]>>)])

ExplainHosting(sig) ==
    LET hosting == sig.hosting
        rep_score == Get(hosting.reputation_score, Num(50))
        provider == IF hosting.hosting_provider.t = "absent" THEN "Unknown"
                    ELSE hosting.hosting_provider.s
    IN  IF ~IsMapping(hosting) \/ ~IsNumber(rep_score) THEN Failed(<<>>)
        ELSE IF rep_score.n < 40
             THEN Appended(<<Line("hosting",
                                  "MEDIUM: Hosted on service with low reputation score")>>)
        ELSE IF rep_score.n > 70
             THEN Appended(<<LineWith("hosting",
                                      "POSITIVE: Hosted by reputable provider ({hosting_provider})",
                                      0, <<provider>>)>>)
        ELSE Appended(<<>>)

ExplainContent(sig) ==
    LET content == sig.content
        high_risk == content.high_risk_keywords.items
        medium_risk == content.medium_risk_keywords.items
        high_lines ==
            IF high_risk = <<>> THEN <<>>
            ELSE <<LineWith("content",
                            "HIGH RISK: Found {len(high_risk)} high-risk scam keywords in content",
                            Len(high_risk), <<>>),
                   LineWith("content", "   Examples: '{high_risk[0]}', '{high_risk[1]}'", 0,
                            <<high_risk[1], IF Len(high_risk) > 1 THEN high_risk[2] ELSE "">>)>>
        medium_lines ==
            IF medium_risk = <<>> THEN <<>>
            ELSE <<LineWith("content",
                            "MEDIUM: Found {len(medium_risk)} marketing-related keywords",
                            Len(medium_risk), <<>>)>>
        form_lines ==
            IF Truthy(Get(content.has_forms, Bool(FALSE)))
               /\ (high_risk # <<>> \/ medium_risk # <<>>)
            THEN <<Line("content",
                        "WARNING: Site contains forms and suspicious keywords (possible phishing)")>>
            ELSE <<>>
    IN  IF ~IsMapping(content) THEN Failed(<<>>)
        ELSE IF Truthy(Get(content.content_available, Bool(FALSE)))
             THEN Appended(high_lines \o medium_lines \o form_lines)
        ELSE Appended(<<>>)

ExplainDns(sig) ==
    IF ~IsMapping(sig.dns) THEN Failed(<<>>)
    ELSE IF ~Truthy(Get(sig.dns.resolved, Bool(FALSE)))
         THEN Appended(<<Line("dns", "CRITICAL: Domain does not resolve to an IP address")>>)
    ELSE Appended(<<>>)

\* the category steps with the DNS step run first
CategorySteps_dns_first(sig) ==
    << ExplainDns(sig), ExplainAge(sig), ExplainSsl(sig), ExplainBlacklist(sig),
       ExplainScamPattern(sig), ExplainIndicators(sig), ExplainHosting(sig),
       ExplainContent(sig) >>

\* the category steps in the order generate_explanations runs them
CategorySteps(sig) ==
    << ExplainAge(sig), ExplainSsl(sig), ExplainBlacklist(sig), ExplainScamPattern(sig),
       ExplainIndicators(sig), ExplainHosting(sig), ExplainContent(sig), ExplainDns(sig) >>

\* the lines appended up to and including step i, or up to the first step that raises
RECURSIVE CategoryLines(_, _)
CategoryLines(steps, i) ==
    IF i = 0 THEN Appended(<<>>)
    ELSE LET before == CategoryLines(steps, i - 1)
         IN  IF before.raised THEN before
             ELSE IF steps[i].raised THEN Failed(before.lines \o steps[i].lines)
             ELSE Appended(before.lines \o steps[i].lines)

\* the banner choice with > for >= at the thresholds
VerdictBanner_strict(risk_score) ==
    IF risk_score > 70000 THEN ScamBanner
    ELSE IF risk_score > 40000 THEN SuspiciousBanner
    ELSE SafeBanner

\* explanations.insert(0, ...) by risk_score (thousandths)
VerdictBanner(risk_score) ==
    IF risk_score >= 70000 THEN ScamBanner
    ELSE IF risk_score >= 40000 THEN SuspiciousBanner
    ELSE SafeBanner

\* generate_explanations with the banner appended where it should be inserted
generate_explanations_banner_appended(sig, risk_score) ==
    LET category == CategoryLines(CategorySteps(sig), Len(CategorySteps(sig)))
    IN  IF category.raised THEN category.lines \o <<ErrorLine>>
        ELSE category.lines \o <<VerdictBanner(risk_score)>> \o <<BlankLine, Disclaimer>>

\* generate_explanations(signals, risk_score): an exception keeps the lines
\* appended so far and appends the error line; no banner, no disclaimer
generate_explanations(sig, risk_score) ==
    LET category == CategoryLines(CategorySteps(sig), Len(CategorySteps(sig)))
    IN  IF category.raised THEN category.lines \o <<ErrorLine>>
        ELSE <<VerdictBanner(risk_score)>> \o category.lines \o <<BlankLine, Disclaimer>>

----
(* check_domain: one request.  pc names the step that runs next. *)

NoPrediction ==
    [risk_score |-> 0, probability |-> 0, confidence |-> 0,
     feature_importance |-> <<>>, model_version |-> "", error |-> ""]

NoResponse ==
    [risk_score |-> 0, verdict |-> "", confidence |-> 0, detailed_reasons |-> <<>>]

\* round(x, 2) of x in thousandths, in hundredths (half to even)
Round2(x) ==
    LET q == x \div 10
        r == x % 10
    IN  IF r > 5 \/ (r = 5 /\ q % 2 = 1) THEN q + 1 ELSE q

core == <<features, normalized_features, probability, ml_prediction, rule_score,
          final_risk_score, verdict, confidence, detailed_reasons, response>>

\* validate_domain(domain) is false: HTTPException 400
RejectDomain ==
    /\ pc = "validate"
    /\ ~domain_valid
    /\ pc' = "done"
    /\ status' = 400
    /\ UNCHANGED <<domain_valid, signals, core, ml_model, model_io>>

AcceptDomain ==
    /\ pc = "validate"
    /\ domain_valid
    /\ pc' = "whois"
    /\ signals' = EmptyBundle
    /\ UNCHANGED <<domain_valid, core, status, ml_model, model_io>>

\* features = extract_features(signals); an exception leaves check_domain
\* through its except branch: HTTPException 500
ExtractFeatures ==
    /\ pc = "extract"
    /\ LET r == extract_features(signals)
       IN  IF r.raised
           THEN /\ pc' = "done"
                /\ status' = 500
                /\ UNCHANGED features
           ELSE /\ pc' = "predict"
                /\ features' = r.v
                /\ UNCHANGED status
    /\ UNCHANGED <<domain_valid, signals, normalized_features, ml_prediction, rule_score,
                   final_risk_score, verdict, confidence, detailed_reasons, response,
                   ml_model, model_io, probability>>

\* ml_prediction = ml_model.predict(features); normalized_features is the
\* local of predict, left unset when _normalize_features raises
Predict ==
    /\ pc = "predict"
    /\ ml_prediction' = predict(features, weights)
    /\ normalized_features' = _normalize_features(features).v
    /\ probability' = IF ml_prediction' = PredictFallback THEN probability
                      ELSE ml_prediction'.probability
    /\ pc' = "rule"
    /\ UNCHANGED <<domain_valid, signals, features, rule_score, final_risk_score, verdict,
                   confidence, detailed_reasons, response, status, ml_model, model_io>>

\* rule_score = risk_engine.calculate_risk_score(signals)
CalculateRiskScore ==
    /\ pc = "rule"
    /\ rule_score' = calculate_risk_score(signals)
    /\ pc' = "combine"
    /\ UNCHANGED <<domain_valid, signals, features, normalized_features, ml_prediction,
                   final_risk_score, verdict, confidence, detailed_reasons, response,
                   status, ml_model, model_io, probability>>

\* the combination with the two weights exchanged
CombineScores_swapped ==
    /\ pc = "combine"
    /\ final_risk_score' = ml_prediction.risk_score * 4 + rule_score * 600
    /\ pc' = "verdict"
    /\ UNCHANGED <<domain_valid, signals, features, normalized_features, ml_prediction,
                   rule_score, verdict, confidence, detailed_reasons, response, status,
                   ml_model, model_io, probability>>

\* final_risk_score = ml_prediction['risk_score'] * 0.6 + rule_score * 0.4,
\* in thousandths
CombineScores ==
    /\ pc = "combine"
    /\ final_risk_score' = ml_prediction.risk_score * 6 + rule_score * 400
    /\ pc' = "verdict"
    /\ UNCHANGED <<domain_valid, signals, features, normalized_features, ml_prediction,
                   rule_score, verdict, confidence, detailed_reasons, response, status,
                   ml_model, model_io, probability>>

\* verdict, confidence = determine_verdict(final_risk_score, signals)
DetermineVerdict ==
    /\ pc = "verdict"
    /\ LET r == determine_verdict(final_risk_score, signals)
       IN  IF r.raised
           THEN /\ pc' = "done"
                /\ status' = 500
                /\ UNCHANGED <<verdict, confidence>>
           ELSE /\ pc' = "explain"
                /\ verdict' = r.verdict
                /\ confidence' = r.confidence
                /\ UNCHANGED status
    /\ UNCHANGED <<domain_valid, signals, features, normalized_features, ml_prediction,
                   rule_score, final_risk_score, detailed_reasons, response, ml_model, model_io, probability>>

\* generate_explanations appending to a list that outlives the call
GenerateExplanations_accumulating ==
    /\ pc = "explain"
    /\ detailed_reasons' = detailed_reasons \o generate_explanations(signals, final_risk_score)
    /\ pc' = "respond"
    /\ UNCHANGED <<domain_valid, signals, features, normalized_features, ml_prediction,
                   rule_score, final_risk_score, verdict, confidence, response, status,
                   ml_model, model_io, probability>>

\* detailed_reasons = risk_engine.generate_explanations(signals, final_risk_score)
GenerateExplanations ==
    /\ pc = "explain"
    /\ detailed_reasons' = generate_explanations(signals, final_risk_score)
    /\ pc' = "respond"
    /\ UNCHANGED <<domain_valid, signals, features, normalized_features, ml_prediction,
                   rule_score, final_risk_score, verdict, confidence, response, status,
                   ml_model, model_io, probability>>

\* the DomainCheckResponse
Respond ==
    /\ pc = "respond"
    /\ response' = [risk_score |-> Round2(final_risk_score), verdict |-> verdict,
                    confidence |-> confidence, detailed_reasons |-> detailed_reasons]
    /\ status' = 200
    /\ pc' = "done"
    /\ UNCHANGED <<domain_valid, signals, features, normalized_features, ml_prediction,
                   rule_score, final_risk_score, verdict, confidence, detailed_reasons,
                   ml_model, model_io, probability>>

----
(* What the six collaborators return (services/*.py): well-typed mappings *)

\* the hit count is len(blacklists): up to MaxHits of the domain blacklists
MaxHits == 2
\* medium-risk keywords found in a page
MaxKeywords == 3
\* risk indicators in one blacklist result
MaxIndicators == 2

DomainBlacklists ==
    <<"dbl.spamhaus.org", "multi.uribl.com", "rhsbl.sorbs.net", "nomail.rhsbl.sorbs.net">>
HighRiskKeywords == <<"winner", "act now", "free money">>
MediumRiskKeywords ==
    <<"free gift", "act fast", "lowest price", "work from home", "instant approval">>

\* an ordinary name, and a long one with more than five digits
ShortDomain == Domain(11, 0)
LongDomain == Domain(36, 6)

WhoisResults ==
    { Whois(Num(-1), Bool(TRUE), ShortDomain),
      Whois(Num(3), Bool(FALSE), LongDomain),
      Whois(Num(800), Bool(FALSE), ShortDomain) }

SslResults ==
    { Ssl(Bool(FALSE), Bool(FALSE), None),
      Ssl(Bool(TRUE), Bool(FALSE), None),
      Ssl(Bool(TRUE), Bool(TRUE), Num(10)),
      Ssl(Bool(TRUE), Bool(TRUE), Num(90)) }

DnsResults == { Dns(Bool(TRUE)), Dns(Bool(FALSE)) }

BlacklistResults ==
    { Blacklist(Num(0), List(<<>>), Bool(FALSE), List(<<>>)) }
    \cup { Blacklist(Num(k), List(Prefix(DomainBlacklists, k)), Bool(TRUE),
                     List(<<ScamNameIndicator, TLDIndicator>>)) : k \in 1..MaxHits }

HostingResults ==
    { Hosting(Num(50), Text("Unknown")),
      Hosting(Num(80), Text("Cloudflare")),
      Hosting(Num(10), Text("offshore.example")) }

ContentResults ==
    { Content(Num(50), Num(0), List(<<>>), List(<<>>), Bool(FALSE), Bool(FALSE)),
      Content(Num(0), Num(0), List(<<>>), List(<<>>), Bool(TRUE), Bool(TRUE)),
      Content(Num(95), Num(2 + MaxKeywords), List(Prefix(HighRiskKeywords, 2)),
              List(Prefix(MediumRiskKeywords, MaxKeywords)), Bool(TRUE), Bool(TRUE)) }

\* Step 1: signals['whois'] = whois_service.get_domain_info(domain)
CollectWhois ==
    /\ pc = "whois"
    /\ \E result \in WhoisResults : signals' = [signals EXCEPT !.whois = result]
    /\ pc' = "ssl"
    /\ UNCHANGED <<domain_valid, core, status, ml_model, model_io>>

\* Step 2: signals['ssl'] = ssl_service.check_ssl(domain)
CollectSsl ==
    /\ pc = "ssl"
    /\ \E result \in SslResults : signals' = [signals EXCEPT !.ssl = result]
    /\ pc' = "dns"
    /\ UNCHANGED <<domain_valid, core, status, ml_model, model_io>>

\* Step 3: signals['dns'] = dns_service.resolve_domain(domain)
CollectDns ==
    /\ pc = "dns"
    /\ \E result \in DnsResults : signals' = [signals EXCEPT !.dns = result]
    /\ pc' = "blacklist"
    /\ UNCHANGED <<domain_valid, core, status, ml_model, model_io>>

\* Step 4: signals['blacklist'] = blacklist_service.check_domain(domain)
CollectBlacklist ==
    /\ pc = "blacklist"
    /\ \E result \in BlacklistResults : signals' = [signals EXCEPT !.blacklist = result]
    /\ pc' = "hosting"
    /\ UNCHANGED <<domain_valid, core, status, ml_model, model_io>>

\* Step 5: signals['hosting'] = hosting_service.get_hosting_info(domain, ip)
CollectHosting ==
    /\ pc = "hosting"
    /\ \E result \in HostingResults : signals' = [signals EXCEPT !.hosting = result]
    /\ pc' = "content"
    /\ UNCHANGED <<domain_valid, core, status, ml_model, model_io>>

\* Step 6 with its result dropped instead of stored in the bundle
CollectContent_unstored ==
    /\ pc = "content"
    /\ pc' = "extract"
    /\ UNCHANGED <<domain_valid, signals, core, status, ml_model, model_io>>

\* Step 6: signals['content'] = content_analyzer.analyze_content(domain)
CollectContent ==
    /\ pc = "content"
    /\ \E result \in ContentResults : signals' = [signals EXCEPT !.content = result]
    /\ pc' = "extract"
    /\ UNCHANGED <<domain_valid, core, status, ml_model, model_io>>

NotComputed ==
    /\ features = NoFeatures
    /\ normalized_features = NoFeatures
    /\ probability = 0
    /\ ml_prediction = NoPrediction
    /\ rule_score = 0
    /\ final_risk_score = 0
    /\ verdict = ""
    /\ confidence = 0
    /\ detailed_reasons = <<>>
    /\ response = NoResponse
    /\ status = 0
    /\ FreshModel

\* a request arrives at check_domain; the service has never saved a model
Init ==
    /\ pc = "validate"
    /\ domain_valid \in BOOLEAN
    /\ signals = EmptyBundle
    /\ NotComputed
    /\ model_file = FileMissing

Scoring ==
    \/ ExtractFeatures
    \/ Predict
    \/ CalculateRiskScore
    \/ CombineScores
    \/ DetermineVerdict
    \/ GenerateExplanations
    \/ Respond

Next ==
    \/ RejectDomain
    \/ AcceptDomain
    \/ CollectWhois
    \/ CollectSsl
    \/ CollectDns
    \/ CollectBlacklist
    \/ CollectHosting
    \/ CollectContent
    \/ Scoring

Spec == Init /\ [][Next]_vars

----
(* The scoring core on every bundle a caller can hand it: keys and sub-records
   missing, values outside their nominal range, values of the wrong type.
   One sub-record ranges over its wide set while the others follow a profile. *)

\* sequences of at most k elements of S
SeqsUpTo(S, k) == UNION {[1..m -> S] : m \in 0..k}

AgeValues ==
    {Absent, None, Str}
    \cup {Num(d) : d \in {-1, 0, 3, 6, 7, 8, 29, 30, 31, 89, 90, 91, 180, 181, 365, 366,
                          365 * 3, 100000}}

WhoisWide ==
    {Whois(age, privacy, domain) :
        age \in AgeValues, privacy \in {Absent, Bool(TRUE)},
        domain \in {NoDomain, ShortDomain, LongDomain, NoneDomain}}
    \cup {Missing(EmptyWhois), NotMapping(EmptyWhois)}

SslWide ==
    {Ssl(has_ssl, ssl_valid, days) :
        has_ssl \in {Absent, Bool(FALSE), Bool(TRUE)},
        ssl_valid \in {Absent, Bool(FALSE), Bool(TRUE)},
        days \in {Absent, None, Str, Num(-1), Num(0), Num(29), Num(30)}}
    \cup {Missing(EmptySsl), NotMapping(EmptySsl)}

DnsWide ==
    {Dns(resolved) : resolved \in {Absent, Bool(FALSE), Bool(TRUE)}}
    \cup {Missing(EmptyDns), NotMapping(EmptyDns)}

HitValues == {Absent, None, Str, Num(-1), Num(100)} \cup {Num(k) : k \in 0..MaxHits}

Indicators == {ScamNameIndicator, TLDIndicator, HomographIndicator, BothIndicator}

BlacklistWide ==
    {Blacklist(hits, IF hits.n > 0 THEN List(Prefix(DomainBlacklists, hits.n)) ELSE names,
               scam, indicators) :
        hits \in HitValues, names \in {NoList, List(<<>>)}, scam \in {Absent, Bool(TRUE)},
        indicators \in {NoList, NoneList}
                       \cup {List(seq) : seq \in SeqsUpTo(Indicators, MaxIndicators)}}
    \cup {Missing(EmptyBlacklist), NotMapping(EmptyBlacklist)}

HostingWide ==
    {Hosting(reputation, provider) :
        reputation \in {Absent, None, Str}
                       \cup {Num(r) : r \in {-10, 0, 29, 30, 39, 40, 49, 50, 70, 71, 100, 150}},
        provider \in {NoText, Text("Cloudflare")}}
    \cup {Missing(EmptyHosting), NotMapping(EmptyHosting)}

KeywordLists(keywords, k) ==
    {NoList, NoneList} \cup {List(Prefix(keywords, m)) : m \in 0..k}

ContentWide ==
    {Content(scam_score, keyword_count, NoList, NoList, Absent, Absent) :
        scam_score \in {Absent, None, Str}
                       \cup {Num(c) : c \in {-10, 0, 29, 30, 50, 70, 71, 100, 150}},
        keyword_count \in {Absent, Str, Num(-1), Num(0), Num(3), Num(12)}}
    \cup {Content(Num(50), Num(0), high_risk, medium_risk, has_forms, available) :
        high_risk \in KeywordLists(HighRiskKeywords, 2),
        medium_risk \in KeywordLists(MediumRiskKeywords, MaxKeywords),
        has_forms \in {Absent, Bool(TRUE)}, available \in {Absent, Bool(TRUE)}}
    \cup {Missing(EmptyContent), NotMapping(EmptyContent)}

\* a long-registered site with a valid certificate and nothing against it
Reputable ==
    Bundle(Whois(Num(800), Bool(FALSE), ShortDomain),
           Ssl(Bool(TRUE), Bool(TRUE), Num(90)), Dns(Bool(TRUE)),
           Blacklist(Num(0), List(<<>>), Bool(FALSE), List(<<>>)),
           Hosting(Num(80), Text("Cloudflare")),
           Content(Num(0), Num(0), List(<<>>), List(<<>>), Bool(FALSE), Bool(TRUE)))

\* the profiles of the other five sub-records: nothing known, a reputable
\* site, a site with every kind of evidence against it
Profiles ==
    { EmptyBundle,
      Reputable,
      Bundle(Whois(Num(3), Bool(TRUE), LongDomain),
             Ssl(Bool(FALSE), Bool(FALSE), None), Dns(Bool(FALSE)),
             Blacklist(Num(MaxHits), List(Prefix(DomainBlacklists, MaxHits)), Bool(TRUE),
                       List(<<TLDIndicator, HomographIndicator>>)),
             Hosting(Num(10), Text("offshore.example")),
             Content(Num(95), Num(5), List(Prefix(HighRiskKeywords, 2)),
                     List(Prefix(MediumRiskKeywords, MaxKeywords)), Bool(TRUE),
                     Bool(TRUE))) }

\* a three-day-old site without a certificate, nothing else against it and
\* nothing else known, with its DNS lookup unanswered and answered
ExampleBundles ==
    {Bundle(Whois(Num(3), Absent, NoDomain), Ssl(Bool(FALSE), Absent, Absent),
            Dns(Bool(resolved)), Blacklist(Num(0), NoList, Absent, NoList),
            Hosting(Num(50), NoText),
            Content(Num(50), Absent, NoList, NoList, Absent, Absent)) :
        resolved \in BOOLEAN}

CoreBundles ==
    ExampleBundles \cup
    UNION { {[profile EXCEPT !.whois = w] : w \in WhoisWide}
            \cup {[profile EXCEPT !.ssl = x] : x \in SslWide}
            \cup {[profile EXCEPT !.dns = d] : d \in DnsWide}
            \cup {[profile EXCEPT !.blacklist = b] : b \in BlacklistWide}
            \cup {[profile EXCEPT !.hosting = h] : h \in HostingWide}
            \cup {[profile EXCEPT !.content = c] : c \in ContentWide}
            : profile \in Profiles }

\* the collectors have returned; check_domain is about to score the bundle
InitCore ==
    /\ pc = "extract"
    /\ domain_valid = TRUE
    /\ signals \in CoreBundles
    /\ NotComputed
    /\ model_file = FileMissing

NextCore == Scoring

SpecCore == InitCore /\ [][NextCore]_vars

----
(* determine_verdict and the combiner on scores around the thresholds: the
   model's and the rule engine's scores are drawn from grids whose blends hit
   39.99, 40.00, 69.99 and 70.00 *)

MlGrid == {0, 3000, 4000, 6000, 6665, 6666, 9000, 9665, 9666, 10000}
RuleGrid == {0, 10, 25, 30, 40, 60, 100}

CombinerBundles ==
    {[Reputable EXCEPT !.blacklist = b] :
        b \in {Missing(EmptyBlacklist), EmptyBlacklist}
              \cup {Blacklist(Num(k), List(Prefix(DomainBlacklists, k)), Bool(FALSE),
                              List(<<>>)) : k \in 0..MaxHits}}

InitCombiner ==
    /\ pc = "combine"
    /\ domain_valid = TRUE
    /\ signals \in CombinerBundles
    /\ \E r \in MlGrid :
          ml_prediction = [NoPrediction EXCEPT !.risk_score = r, !.probability = r,
                                               !.confidence = 50,
                                               !.model_version = "1.0-simulated"]
    /\ rule_score \in RuleGrid
    /\ features = NoFeatures
    /\ normalized_features = NoFeatures
    /\ probability = 0
    /\ final_risk_score = 0
    /\ verdict = ""
    /\ confidence = 0
    /\ detailed_reasons = <<>>
    /\ response = NoResponse
    /\ status = 0
    /\ FreshModel
    /\ model_file = FileMissing

NextCombiner ==
    \/ CombineScores
    \/ DetermineVerdict
    \/ GenerateExplanations
    \/ Respond

SpecCombiner == InitCombiner /\ [][NextCombiner]_vars

----
(* The MLModel object over its life: load_model and save_model can be called
   at any time, between the steps of a request as well *)

\* load_model falling back to the table of __init__ when it cannot load
LoadModel_reset ==
    /\ IF model_file.kind = "pickle"
       THEN /\ weights' = model_file.table
            /\ model_loaded' = TRUE
            /\ model_log' = "Model loaded from {path}"
       ELSE /\ weights' = DefaultWeights
            /\ model_loaded' = FALSE
            /\ model_log' = IF model_file.kind = "missing"
                            THEN "Model file not found: {path}"
                            ELSE "Error loading model: {str(e)}"
    /\ UNCHANGED <<pc, domain_valid, signals, core, status, model_file>>

\* load_model(path): self.weights = pickle.load(f) and model_loaded = True when
\* the file exists and loads; a missing file is logged as a warning, an
\* exception of open() or pickle.load() is caught and logged
LoadModel ==
    /\ IF model_file.kind = "pickle"
       THEN /\ weights' = model_file.table
            /\ model_loaded' = TRUE
            /\ model_log' = "Model loaded from {path}"
       ELSE /\ UNCHANGED <<weights, model_loaded>>
            /\ model_log' = IF model_file.kind = "missing"
                            THEN "Model file not found: {path}"
                            ELSE "Error loading model: {str(e)}"
    /\ UNCHANGED <<pc, domain_valid, signals, core, status, model_file>>

\* save_model(path): pickle.dump(self.weights, f); open() can raise before the
\* file is touched, and dump can raise after open() has truncated it
SaveModel ==
    /\ \E outcome \in {"saved", "not opened", "truncated"} :
          /\ model_file' = CASE outcome = "saved" -> Pickled(weights)
                              [] outcome = "not opened" -> model_file
                              [] outcome = "truncated" -> FileCorrupt
          /\ model_log' = IF outcome = "saved" THEN "Model saved to {path}"
                          ELSE "Error saving model: {str(e)}"
    /\ UNCHANGED <<pc, domain_valid, signals, core, status, ml_model>>

\* what can be at the path when the service starts
ModelFiles == {FileMissing, FileCorrupt, Pickled(TrainedWeights)}

InitModel ==
    /\ pc = "extract"
    /\ domain_valid = TRUE
    /\ signals \in Profiles
    /\ NotComputed
    /\ model_file \in ModelFiles

\* predict up to its first read of self.weights: _normalize_features,
\* _calculate_score (for ... in self.weights.items()) and _sigmoid; a raise
\* lands in predict's except and returns the fallback
PredictScore ==
    /\ pc = "predict"
    /\ LET normalized == _normalize_features(features)
           score == _calculate_score(normalized.v, weights)
       IN  /\ normalized_features' = normalized.v
           /\ IF normalized.raised \/ score.raised
              THEN /\ ml_prediction' = PredictFallback
                   /\ pc' = "rule"
                   /\ UNCHANGED probability
              ELSE /\ probability' = _sigmoid(score.v)
                   /\ pc' = "importance"
                   /\ UNCHANGED ml_prediction
    /\ UNCHANGED <<domain_valid, signals, features, rule_score, final_risk_score, verdict,
                   confidence, detailed_reasons, response, status, ml_model, model_io>>

\* the rest of predict: _calculate_feature_importance with its own read of
\* self.weights, then the result dictionary with _calculate_confidence
PredictImportance ==
    /\ pc = "importance"
    /\ ml_prediction' =
          [risk_score |-> probability,
           probability |-> probability,
           confidence |-> _calculate_confidence(normalized_features),
           feature_importance |-> _calculate_feature_importance(normalized_features, weights),
           model_version |-> "1.0-simulated", error |-> ""]
    /\ pc' = "rule"
    /\ UNCHANGED <<domain_valid, signals, features, normalized_features, probability,
                   rule_score, final_risk_score, verdict, confidence, detailed_reasons,
                   response, status, ml_model, model_io>>

\* the scoring core with predict in its two steps, and load_model or save_model
\* called on the shared instance between any two of them
NextModel ==
    \/ ExtractFeatures
    \/ PredictScore
    \/ PredictImportance
    \/ CalculateRiskScore
    \/ CombineScores
    \/ DetermineVerdict
    \/ GenerateExplanations
    \/ Respond
    \/ LoadModel
    \/ SaveModel

SpecModel == InitModel /\ [][NextModel]_vars

----
(* The core run again on the bundle it has already scored, with the same
   weight and rule tables: after a run has ended the caller may invoke any of
   the five operations again, in any order and any number of times *)

Repeat ==
    /\ \E step \in {"extract", "predict", "rule", "verdict", "explain"} :
          /\ \/ pc = "done" /\ status = 500 /\ step = "extract"
             \/ response # NoResponse
          /\ pc' = step
    /\ UNCHANGED <<domain_valid, signals, core, status, ml_model, model_io>>

NextRepeat ==
    \/ Scoring
    \/ Repeat

SpecRepeat == InitCore /\ [][NextRepeat]_vars

----
(* Where a request stands *)

\* determine_verdict has returned a verdict
VerdictReturned == pc \in {"explain", "respond"} \/ (pc = "done" /\ status = 200)

\* generate_explanations has returned
Explained == pc = "respond" \/ (pc = "done" /\ status = 200)

\* predict has returned
Predicted == ml_prediction # NoPrediction

\* calculate_risk_score has returned
RuleScored ==
    \/ pc \in {"combine", "verdict", "explain", "respond"}
    \/ (pc = "done" /\ status # 400 /\ features # NoFeatures)

\* the hit count determine_verdict reads from a bundle whose count is a number
Hits(sig) == Get(sig.blacklist.blacklist_hits, Num(0)).n

(* A bundle whose present fields have the types and ranges of the collaborator
   interface; any key and any sub-record may be absent *)
OptBool(v) == v.t \in {"absent", "bool"}
OptNat(v) == v.t = "absent" \/ (v.t = "num" /\ v.n >= 0)
OptRange(v, lo, hi) == v.t = "absent" \/ (v.t = "num" /\ lo <= v.n /\ v.n <= hi)
OptList(l) == l.t \in {"absent", "list"}

InterfaceTyped(sig) ==
    /\ \A name \in {"whois", "ssl", "dns", "blacklist", "hosting", "content"} :
          IsMapping(sig[name])
    /\ OptNat(sig.whois.domain_age_days)
    /\ OptBool(sig.whois.privacy_protected)
    /\ sig.whois.domain.t \in {"absent", "str"}
    /\ OptBool(sig.ssl.has_ssl)
    /\ OptBool(sig.ssl.ssl_valid)
    /\ sig.ssl.days_until_expiry.t \in {"absent", "none", "num"}
    /\ OptBool(sig.dns.resolved)
    /\ OptNat(sig.blacklist.blacklist_hits)
    /\ OptList(sig.blacklist.blacklists)
    /\ OptBool(sig.blacklist.scam_pattern_detected)
    /\ OptList(sig.blacklist.risk_indicators)
    /\ OptRange(sig.hosting.reputation_score, 0, 100)
    /\ OptRange(sig.content.scam_score, 0, 100)
    /\ OptNat(sig.content.risk_keyword_count)
    /\ OptList(sig.content.high_risk_keywords)
    /\ OptList(sig.content.medium_risk_keywords)
    /\ OptBool(sig.content.has_forms)
    /\ OptBool(sig.content.content_available)

----
(* Claims *)

\* C1: whenever the bundle's blacklist_hits is > 0, determine_verdict returns
\* the likely-scam verdict with confidence 0.95, whatever the final score is
C1_BlacklistOverride ==
    (VerdictReturned /\ Hits(signals) > 0)
        => (verdict = "LIKELY SCAM" /\ confidence = 95)

\* C1 witness: a bundle with a blacklist hit and a final score below 40 was judged
C1_Witness ==
    /\ VerdictReturned
    /\ Hits(signals) > 0
    /\ final_risk_score < 40000
    /\ verdict = "LIKELY SCAM"

\* C2: with blacklist_hits 0 or absent the final score falls in exactly one
\* bucket: >= 70 likely scam at 0.85, >= 40 suspicious at 0.75, else safe at 0.80
C2_ScoreBuckets ==
    (VerdictReturned /\ Hits(signals) = 0)
        => /\ final_risk_score >= 70000 => (verdict = "LIKELY SCAM" /\ confidence = 85)
           /\ (40000 <= final_risk_score /\ final_risk_score < 70000)
                 => (verdict = "SUSPICIOUS" /\ confidence = 75)
           /\ final_risk_score < 40000 => (verdict = "SAFE" /\ confidence = 80)

\* C2 witness: a final score of 69.99 with no blacklist hit was judged suspicious
C2_Witness ==
    /\ VerdictReturned
    /\ Hits(signals) = 0
    /\ final_risk_score = 69990
    /\ verdict = "SUSPICIOUS"

OtherSubscores(sig) == SubSeq(Subscores(sig), 2, Len(Subscores(sig)))

\* C4: a whois sub-record without a domain_age_days key gets no age points and
\* no 'extremely new' line
C4_AbsentAgeIsNeutral ==
    (/\ Explained
     /\ InterfaceTyped(signals)
     /\ signals.whois.kind = "map"
     /\ signals.whois.domain_age_days = Absent)
        => /\ rule_score = Min(SumPoints(OtherSubscores(signals), 6), 100)
           /\ \A i \in 1..Len(detailed_reasons) : detailed_reasons[i] # AgeCritical

\* C5: for a bundle whose present fields have the interface's types and ranges,
\* and on the error-fallback path, calculate_risk_score returns a value in [0,100]
C5_RuleScoreRange ==
    (RuleScored /\ (InterfaceTyped(signals) \/ RuleScoreRaises(signals)))
        => (0 <= rule_score /\ rule_score <= 100)

\* C5 witness: a well-typed bundle whose subscores add up to more than 100
C5_Witness ==
    /\ RuleScored
    /\ InterfaceTyped(signals)
    /\ SumPoints(Subscores(signals), 7) > 100
    /\ rule_score = 100

\* C6: after normalization every one of the ten features is in [0,1]
C6_FeaturesNormalized ==
    (Predicted /\ ml_prediction.error = "")
        => \A i \in 1..Len(FeatureNames) :
              /\ 0 <= normalized_features[FeatureNames[i]].n
              /\ normalized_features[FeatureNames[i]].n <= SCALE

Banners == {ScamBanner, SuspiciousBanner, SafeBanner}

C8_ConfidenceRange ==
    Predicted => (0 <= ml_prediction.confidence /\ ml_prediction.confidence <= 95)

\* C8 witness: all four signals informative, so that only the cap keeps the
\* confidence at 0.95
C8_Witness ==
    /\ Predicted
    /\ ml_prediction.error = ""
    /\ normalized_features.dns_resolved.n = SCALE
    /\ normalized_features.domain_age_days.n > 0
    /\ normalized_features.content_scam_score.n # SCALE \div 2
    /\ ml_prediction.confidence = 95

\* some feature handed to predict is not a number
BadFeature == \E i \in 1..Len(FeatureNames) : ~IsNumber(features[FeatureNames[i]])

\* C9: predict on a feature that is not a number returns the neutral fallback
\* (50, 0.5, 0.5, no importances) with the error attached
C9_PredictFallback ==
    (Predicted /\ BadFeature)
        => /\ ml_prediction.risk_score = 5000
           /\ ml_prediction.probability = 5000
           /\ ml_prediction.confidence = 50
           /\ ml_prediction.feature_importance = <<>>
           /\ ml_prediction.error # ""

\* C9 witness: a request whose domain_age_days is None got the fallback
\* prediction and still a response
C9_Witness ==
    /\ features.domain_age_days = None
    /\ ml_prediction.risk_score = 5000
    /\ ml_prediction.error # ""
    /\ status = 200

\* C10: no core step raises past its boundary: a request whose collectors have
\* returned always ends with a response
C10_CoreNeverAborts == pc = "done" => status = 200

\* all six collector results are stored in the bundle
Collected(sig) ==
    \A name \in {"whois", "ssl", "dns", "blacklist", "hosting", "content"} :
        sig[name].kind = "map"

\* no step of the scoring core has run
CoreNotRun ==
    /\ features = NoFeatures
    /\ ml_prediction = NoPrediction
    /\ rule_score = 0
    /\ final_risk_score = 0
    /\ verdict = ""
    /\ detailed_reasons = <<>>
    /\ response = NoResponse

\* C11: a rejected domain is refused with status 400 before any collector and
\* any core step has run; in an accepted request no core step runs while a
\* collector is still to run, and all six collector results are in the bundle
\* from the moment extract_features is invoked
C11_Ordering ==
    /\ status = 400 => (signals = EmptyBundle /\ CoreNotRun)
    /\ pc \in {"validate", "whois", "ssl", "dns", "blacklist", "hosting", "content"}
          => CoreNotRun
    /\ (pc \in {"extract", "predict", "rule", "combine", "verdict", "explain", "respond"}
           \/ (pc = "done" /\ status # 400))
          => (domain_valid /\ Collected(signals))

\* C11 witness: an accepted request answered after all six collectors and the
\* five core steps
C11_Witness ==
    /\ pc = "done"
    /\ status = 200
    /\ domain_valid
    /\ Collected(signals)
    /\ ~CoreNotRun

\* C12: while the file at the path is missing or cannot be loaded, no step
\* changes the weight table or the model_loaded flag, and a load aborts
\* nothing; the weight table changes only by a load of a file that loads, and
\* then it is the file's table as a whole, with model_loaded set
C12_LoadModelFrame ==
    [][/\ model_file.kind \in {"missing", "corrupt"} => UNCHANGED <<weights, model_loaded>>
       /\ (weights' # weights \/ model_loaded' # model_loaded)
             => /\ model_file.kind = "pickle"
                /\ weights' = model_file.table
                /\ model_loaded' = TRUE
                /\ model_log' = "Model loaded from {path}"
       /\ (model_log' # model_log
              /\ model_log' \in {"Model loaded from {path}", "Model file not found: {path}",
                                 "Error loading model: {str(e)}"})
             => UNCHANGED <<pc, status, signals, core, model_file>>]_vars

\* C12 witness: a table was loaded, the file then became unloadable, and the
\* next load_model left the loaded table and the flag in place
C12_Witness ==
    /\ model_log = "Error loading model: {str(e)}"
    /\ model_file = FileCorrupt
    /\ weights = TrainedWeights
    /\ model_loaded = TRUE

ScoresInRange ==
    /\ 0 <= ml_prediction.risk_score /\ ml_prediction.risk_score <= 100 * 100
    /\ 0 <= rule_score /\ rule_score <= 100

\* C14: the combined score is 0.6 * ml.risk_score + 0.4 * rule_score; the
\* risk_score of the response is the multiple of 0.01 nearest to it; with both
\* scores in [0,100] the combined and the reported score are in [0,100]
C14_CombinedScore ==
    /\ (pc \in {"verdict", "explain", "respond"} \/ status = 200)
          => /\ 10 * final_risk_score
                   = 6 * (10 * ml_prediction.risk_score) + 4 * (1000 * rule_score)
             /\ ScoresInRange => (0 <= final_risk_score /\ final_risk_score <= 100 * 1000)
    /\ status = 200
          => /\ Abs(10 * response.risk_score - final_risk_score) <= 5
             /\ ScoresInRange
                   => (0 <= response.risk_score /\ response.risk_score <= 100 * 100)

\* C14 witness: a response whose combined score 39.996 was rounded to 40.00
C14_Witness ==
    /\ status = 200
    /\ ml_prediction.risk_score = 6666
    /\ rule_score = 0
    /\ final_risk_score = 39996
    /\ response.risk_score = 4000

\* C15: for the three-day-old site without certificate and without DNS answer
\* calculate_risk_score returns 60 = 25 (age) + 15 (no SSL) + 20 (DNS); with
\* the DNS lookup answered the DNS rule contributes 0 and the score is 40; and
\* in any bundle the DNS rule gives 20 for an unresolved domain, 0 otherwise
C15_ExampleScore ==
    /\ (RuleScored /\ signals \in ExampleBundles)
          => /\ signals.dns.resolved = Bool(FALSE) => rule_score = 60
             /\ signals.dns.resolved = Bool(TRUE) => rule_score = 25 + 15 + 0
             /\ _calculate_age_score(signals.whois.domain_age_days) = Points(25)
             /\ _calculate_ssl_score(signals.ssl) = Points(15)
    /\ (RuleScored /\ IsMapping(signals.dns) /\ OptBool(signals.dns.resolved))
          => _calculate_dns_score(signals.dns)
                = Points(IF signals.dns.resolved = Bool(TRUE) THEN 0 ELSE 20)

\* C15 witness: the example bundle with its DNS lookup unanswered was scored 60
C15_Witness ==
    /\ RuleScored
    /\ signals \in ExampleBundles
    /\ signals.dns.resolved = Bool(FALSE)
    /\ rule_score = 60

\* C16: for a hit count >= 0 the blacklist subscore is min(hits * 30, 50), so
\* never above 50 (not for 100 hits either) and 0 for an absent count; the rule
\* score of a well-typed bundle contains it
C16_BlacklistSubscore ==
    (/\ RuleScored
     /\ IsMapping(signals.blacklist)
     /\ OptNat(signals.blacklist.blacklist_hits))
        => LET hits == signals.blacklist.blacklist_hits
               subscore == _calculate_blacklist_score(signals.blacklist)
           IN  /\ ~subscore.raised
               /\ subscore.v = (IF hits.n * 30 < 50 THEN hits.n * 30 ELSE 50)
               /\ subscore.v <= 50
               /\ hits = Absent => subscore.v = 0
               /\ InterfaceTyped(signals) => rule_score >= subscore.v

\* C16 witness: a bundle with 100 blacklist hits and nothing else against it
\* was scored 50
C16_Witness ==
    /\ RuleScored
    /\ signals.blacklist.blacklist_hits = Num(100)
    /\ rule_score = 50

\* C17: on the non-error path the rule score is min(age + ssl + blacklist +
\* hosting + content + dns + pattern, 100): every category computed from its
\* own part of the raw bundle, added once, and only the total capped at 100
C17_SumOfSubscores ==
    (RuleScored /\ ~RuleScoreRaises(signals))
        => LET total ==
                   _calculate_age_score(Get(signals.whois.domain_age_days, Num(0))).v
                 + _calculate_ssl_score(signals.ssl).v
                 + _calculate_blacklist_score(signals.blacklist).v
                 + _calculate_hosting_score(signals.hosting).v
                 + _calculate_content_score(signals.content).v
                 + _calculate_dns_score(signals.dns).v
                 + _calculate_pattern_score(signals).v
           IN  rule_score = (IF total < 100 THEN total ELSE 100)

\* C17 witness: four categories add up to 90, below the cap: unknown age 25,
\* no certificate 15, one blacklist hit 30, no DNS answer 20
C17_Witness ==
    /\ RuleScored
    /\ ~RuleScoreRaises(signals)
    /\ _calculate_age_score(Get(signals.whois.domain_age_days, Num(0))).v = 25
    /\ _calculate_ssl_score(signals.ssl).v = 15
    /\ _calculate_blacklist_score(signals.blacklist).v = 30
    /\ _calculate_dns_score(signals.dns).v = 20
    /\ rule_score = 90

\* the brackets of the rule table that hold an age
BracketsOf(days) ==
    {i \in 1..Len(risk_rules.domain_age) :
        risk_rules.domain_age[i][1] <= days /\ days <= risk_rules.domain_age[i][2]}

\* C18: an integer age d >= 0 scores 25 for 0..7, 20 for 8..30, 10 for 31..90,
\* 5 for 91..180 and 0 above 180; the brackets include both their ends, follow
\* one another without gap or overlap, and exactly one contributes
C18_AgeBrackets ==
    (/\ RuleScored
     /\ IsMapping(signals.whois)
     /\ signals.whois.domain_age_days.t = "num"
     /\ signals.whois.domain_age_days.n >= 0)
        => LET d == signals.whois.domain_age_days.n
               points == _calculate_age_score(signals.whois.domain_age_days)
           IN  /\ ~points.raised
               /\ points.v = (IF d <= 7 THEN 25 ELSE IF d <= 30 THEN 20
                              ELSE IF d <= 90 THEN 10 ELSE IF d <= 180 THEN 5 ELSE 0)
               /\ Cardinality(BracketsOf(d)) = (IF d <= 180 THEN 1 ELSE 0)
               /\ risk_rules.domain_age[1][1] = 0
               /\ \A i \in 1..(Len(risk_rules.domain_age) - 1) :
                      risk_rules.domain_age[i + 1][1] = risk_rules.domain_age[i][2] + 1
               /\ InterfaceTyped(signals) => rule_score >= points.v

\* C18 witness: a seven-day-old site with nothing else against it was scored
\* the 25 points of the first bracket
C18_Witness ==
    /\ RuleScored
    /\ signals.whois.domain_age_days = Num(7)
    /\ rule_score = 25

\* C19: the SSL subscore is 15 without a certificate (has_ssl false or absent),
\* else 10 when ssl_valid is false, else 5 when days_until_expiry is an integer
\* below 30 (0 and negative values included), else 0 (days_until_expiry >= 30
\* or absent)
C19_SslSubscore ==
    (RuleScored /\ IsMapping(signals.ssl))
        => LET ssl == signals.ssl
               points == _calculate_ssl_score(ssl)
               present == ssl.has_ssl = Bool(TRUE)
               valid == ssl.ssl_valid = Bool(TRUE)
               days == ssl.days_until_expiry
           IN  /\ ssl.has_ssl \in {Absent, Bool(FALSE)} => points = Points(15)
               /\ (present /\ ssl.ssl_valid = Bool(FALSE)) => points = Points(10)
               /\ (present /\ valid /\ days.t = "num" /\ days.n < 30) => points = Points(5)
               /\ (present /\ valid /\ (days = Absent \/ (days.t = "num" /\ days.n >= 30)))
                     => points = Points(0)

\* C20: the content subscore is 15 for at least one high-risk keyword, plus 5
\* for more than two medium-risk keywords, plus 10 for forms together with any
\* high- or medium-risk keyword; so it is one of 0, 5, 10, 15, 20, 25, 30 and
\* the form bonus is never given without a keyword
C20_ContentSubscore ==
    (/\ RuleScored
     /\ IsMapping(signals.content)
     /\ OptList(signals.content.high_risk_keywords)
     /\ OptList(signals.content.medium_risk_keywords)
     /\ OptBool(signals.content.has_forms))
        => LET high == Len(signals.content.high_risk_keywords.items)
               medium == Len(signals.content.medium_risk_keywords.items)
               forms == signals.content.has_forms = Bool(TRUE)
               points == _calculate_content_score(signals.content)
           IN  /\ ~points.raised
               /\ points.v = (IF high >= 1 THEN 15 ELSE 0)
                            + (IF medium > 2 THEN 5 ELSE 0)
                            + (IF forms /\ (high >= 1 \/ medium >= 1) THEN 10 ELSE 0)
               /\ points.v \in {0, 5, 10, 15, 20, 25, 30}
               /\ (high = 0 /\ medium = 0) => points.v = 0
               /\ InterfaceTyped(signals) => rule_score >= points.v

\* C20 witness: a page with high-risk keywords, more than two medium-risk
\* keywords and a form, on a site with nothing else against it, was scored 30
C20_Witness ==
    /\ RuleScored
    /\ Len(signals.content.high_risk_keywords.items) >= 1
    /\ Len(signals.content.medium_risk_keywords.items) > 2
    /\ signals.content.has_forms = Bool(TRUE)
    /\ rule_score = 30

\* 10 for every indicator that mentions a TLD plus 15 for every indicator that
\* mentions a homograph, each indicator counted for both
RECURSIVE PerIndicatorPoints(_, _)
PerIndicatorPoints(indicators, i) ==
    IF i > Len(indicators) THEN 0
    ELSE (IF MentionsTLD(indicators[i]) THEN 10 ELSE 0)
         + (IF MentionsHomograph(indicators[i]) THEN 15 ELSE 0)
         + PerIndicatorPoints(indicators, i + 1)

\* C21: the pattern subscore is, summed over the risk indicators, 10 for one
\* that mentions a TLD plus 15 for one that mentions a homograph (both for an
\* indicator that mentions both), plus 5 for a domain name longer than 30
\* characters, plus 5 for a domain name with more than 5 digits
C21_PatternSubscore ==
    (/\ RuleScored
     /\ IsMapping(signals.blacklist)
     /\ IsMapping(signals.whois)
     /\ OptList(signals.blacklist.risk_indicators)
     /\ signals.whois.domain.t \in {"absent", "str"})
        => _calculate_pattern_score(signals)
              = Points(PerIndicatorPoints(signals.blacklist.risk_indicators.items, 1)
                       + (IF signals.whois.domain.len > 30 THEN 5 ELSE 0)
                       + (IF signals.whois.domain.digits > 5 THEN 5 ELSE 0))

\* C22: the hosting subscore is 20 for a reputation below 30, 10 for 30..49,
\* 0 from 50 up and 0 for an absent reputation (read as 50); never 20 and 10
\* together
C22_HostingSubscore ==
    (/\ RuleScored
     /\ IsMapping(signals.hosting)
     /\ signals.hosting.reputation_score.t \in {"absent", "num"})
        => LET reputation == signals.hosting.reputation_score
               points == _calculate_hosting_score(signals.hosting)
           IN  /\ ~points.raised
               /\ points.v \in {0, 10, 20}
               /\ (reputation.t = "num" /\ reputation.n < 30) => points.v = 20
               /\ (reputation.t = "num" /\ 30 <= reputation.n /\ reputation.n < 50)
                     => points.v = 10
               /\ (reputation.t = "num" /\ reputation.n >= 50) => points.v = 0
               /\ reputation = Absent => points.v = 0
               /\ InterfaceTyped(signals) => rule_score >= points.v

\* C22 witness: a site with reputation 29 and nothing else against it was
\* scored 20
C22_Witness ==
    /\ RuleScored
    /\ signals.hosting.reputation_score = Num(29)
    /\ rule_score = 20

\* the evidence categories in their published order, and the place of one
CategoryOrder ==
    <<"age", "ssl", "blacklist", "scam_pattern", "indicator", "hosting", "content", "dns">>
Rank(cat) == CHOOSE k \in 1..Len(CategoryOrder) : CategoryOrder[k] = cat

\* the lines between the banner and the trailing blank line and disclaimer
Body(trail) == SubSeq(trail, 2, Len(trail) - 2)

IsIndicatorLine(line) == line.cat = "indicator"

\* C23: between the banner and the trailing blank line and disclaimer the
\* lines are in the order age, SSL, blacklist (hit count, then names),
\* scam-name pattern, risk indicators (one line each, in bundle order),
\* hosting, content, DNS: no line of a later category precedes one of an
\* earlier category
C23_TrailOrder ==
    (Explained /\ detailed_reasons[1] \in Banners)
        => LET body == Body(detailed_reasons)
               indicator_lines == SelectSeq(body, IsIndicatorLine)
           IN  /\ \A i \in 1..Len(body) :
                      \E k \in 1..Len(CategoryOrder) : CategoryOrder[k] = body[i].cat
               /\ \A i, j \in 1..Len(body) :
                      i < j => Rank(body[i].cat) <= Rank(body[j].cat)
               /\ \A i \in 1..Len(body) :
                      body[i].text = "   Blacklists: {', '.join(bl_names[:3])}"
                          => /\ i > 1
                             /\ body[i - 1].text
                                   = "CRITICAL: Found on {blacklist_hits} security blacklist(s)"
               /\ [i \in 1..Len(indicator_lines) |-> indicator_lines[i].args[1]]
                     = signals.blacklist.risk_indicators.items

\* C23 witness: a trail with lines of the first and the last category and of
\* the blacklist, indicator and content categories between them
C23_Witness ==
    /\ Explained
    /\ detailed_reasons[1] \in Banners
    /\ \A cat \in {"age", "blacklist", "indicator", "content", "dns"} :
          \E i \in 1..Len(Body(detailed_reasons)) : Body(detailed_reasons)[i].cat = cat
    /\ Len(signals.blacklist.risk_indicators.items) >= 2

\* C24: the banner at position 0 is chosen by the final score alone: the scam
\* banner from 70, the suspicious banner from 40 to below 70, the safe banner
\* below 40; the category lines follow it as they were built, whatever they say
C24_BannerByScore ==
    (Explained /\ detailed_reasons[Len(detailed_reasons)] = Disclaimer)
        => /\ final_risk_score >= 70000 => detailed_reasons[1] = ScamBanner
           /\ (40000 <= final_risk_score /\ final_risk_score < 70000)
                 => detailed_reasons[1] = SuspiciousBanner
           /\ final_risk_score < 40000 => detailed_reasons[1] = SafeBanner
           /\ \A i \in 2..Len(detailed_reasons) : detailed_reasons[i].cat # "banner"

\* C24 witness: a final score of exactly 70.00 got the scam banner
C24_Witness ==
    /\ Explained
    /\ final_risk_score = 70000
    /\ detailed_reasons[1] = ScamBanner
    /\ detailed_reasons[Len(detailed_reasons)] = Disclaimer

\* how many of the four signals of the confidence rule the normalized
\* features hold: dns_resolved = 1, age > 0, has_https 0 or 1, content # 0.5
SignalsPresent(nf) ==
    Cardinality({name \in {"dns_resolved", "domain_age_days", "has_https",
                           "content_scam_score"} :
        CASE name = "dns_resolved" -> nf[name].n = SCALE
          [] name = "domain_age_days" -> nf[name].n > 0
          [] name = "has_https" -> nf[name].n = 0 \/ nf[name].n = SCALE
          [] name = "content_scam_score" -> 2 * nf[name].n # SCALE})

\* the largest element of a set of numbers
Largest(S) == CHOOSE x \in S : \A y \in S : y <= x

\* C25: on the non-error path the confidence is min(0.95, max(n/4, 0.9 if the
\* normalized blacklist count is > 0, 0.8 if the content score is > 0.7 or
\* < 0.3)); so a blacklist hit gives at least 0.9, an extreme content score at
\* least 0.8, and all four signals exactly 0.95
C25_ConfidenceAlgorithm ==
    (Predicted /\ ml_prediction.error = "")
        => LET nf == normalized_features
               n == SignalsPresent(nf)
               hit == nf.blacklist_count.n > 0
               extreme == \/ 10 * nf.content_scam_score.n > 7 * SCALE
                          \/ 10 * nf.content_scam_score.n < 3 * SCALE
               floors == {25 * n} \cup (IF hit THEN {90} ELSE {})
                                  \cup (IF extreme THEN {80} ELSE {})
               expected == IF Largest(floors) < 95 THEN Largest(floors) ELSE 95
           IN  /\ ml_prediction.confidence = expected
               /\ hit => ml_prediction.confidence >= 90
               /\ extreme => ml_prediction.confidence >= 80
               /\ n = 4 => ml_prediction.confidence = 95

\* C25 witness: one signal present and a blacklist hit: the confidence is 0.9
C25_Witness ==
    /\ Predicted
    /\ ml_prediction.error = ""
    /\ SignalsPresent(normalized_features) = 1
    /\ normalized_features.blacklist_count.n > 0
    /\ ml_prediction.confidence = 90

\* C26: in every response the banner at position 0 of detailed_reasons names
\* the class of the verdict field: the scam banner exactly with LIKELY SCAM,
\* the suspicious banner exactly with SUSPICIOUS, the safe banner exactly with
\* SAFE, blacklist hits or not
C26_BannerMatchesVerdict ==
    (status = 200 /\ response.detailed_reasons[1] \in Banners)
        => /\ response.detailed_reasons[1] = ScamBanner <=> response.verdict = "LIKELY SCAM"
           /\ response.detailed_reasons[1] = SuspiciousBanner
                 <=> response.verdict = "SUSPICIOUS"
           /\ response.detailed_reasons[1] = SafeBanner <=> response.verdict = "SAFE"

\* C27: without blacklist hits the reported risk_score (two decimals) and the
\* reported verdict agree under the published thresholds: >= 70.00 with LIKELY
\* SCAM, 40.00 to below 70.00 with SUSPICIOUS, below 40.00 with SAFE
C27_ReportedScoreMatchesVerdict ==
    (status = 200 /\ Hits(signals) = 0)
        => /\ response.risk_score >= 7000 => response.verdict = "LIKELY SCAM"
           /\ (4000 <= response.risk_score /\ response.risk_score < 7000)
                 => response.verdict = "SUSPICIOUS"
           /\ response.risk_score < 4000 => response.verdict = "SAFE"

----
\* the weight tables self.weights can hold: the one __init__ builds and the
\* ones load_model can unpickle
WeightTables == {DefaultWeights} \cup {f.table : f \in {m \in ModelFiles : m.kind = "pickle"}}

\* C28: the result of a predict call that did not take the except path is the
\* result predict gives for one weight table: risk_score, probability and
\* feature_importance all come from the same table, also when load_model
\* runs between the steps of predict
C28_OneWeightTable ==
    (ml_prediction # NoPrediction /\ ml_prediction # PredictFallback)
        => \E w \in WeightTables : ml_prediction = predict(features, w)

----
\* the line is in the trail generate_explanations returned
Emitted(line) == \E i \in 1..Len(detailed_reasons) : detailed_reasons[i] = line

\* the age subscore of the bundle, when the age is a number
AgePoints == _calculate_age_score(Get(signals.whois.domain_age_days, Num(0))).v

\* C29: for every integer age the tier of the age line is the bracket of the
\* age subscore: the CRITICAL line exactly when the subscore is 25, the HIGH
\* RISK line exactly when it is 20, the MEDIUM line exactly when it is 10, and
\* no risk-worded age line when it is 5 or 0
C29_AgeTierMatchesScore ==
    (Explained /\ IsMapping(signals.whois)
               /\ IsNumber(Get(signals.whois.domain_age_days, Num(0))))
        => /\ Emitted(AgeCritical) <=> AgePoints = 25
           /\ Emitted(AgeHigh) <=> AgePoints = 20
           /\ Emitted(AgeMedium) <=> AgePoints = 10
           /\ AgePoints \in {0, 5} => ~\E line \in {AgeCritical, AgeHigh, AgeMedium} : Emitted(line)

\* a line of one of the categories, other than a POSITIVE one, is in the trail
Warned(cats) ==
    \E i \in 1..Len(detailed_reasons) :
       /\ detailed_reasons[i].cat \in cats
       /\ detailed_reasons[i].text
             # "POSITIVE: Hosted by reputable provider ({hosting_provider})"

\* C30: in a completed trail every hosting, content, DNS or pattern subscore
\* above zero has at least one warning line of its category
C30_ScoredEvidenceExplained ==
    (Explained /\ ~RuleScoreRaises(signals)
               /\ detailed_reasons[Len(detailed_reasons)] = Disclaimer)
        => /\ _calculate_hosting_score(signals.hosting).v > 0 => Warned({"hosting"})
           /\ _calculate_content_score(signals.content).v > 0 => Warned({"content"})
           /\ _calculate_dns_score(signals.dns).v > 0 => Warned({"dns"})
           /\ _calculate_pattern_score(signals).v > 0 => Warned({"indicator", "scam_pattern"})

====
